---- MODULE Spec2Model ----
(***************************************************************************)
(* InsightFlow: the chat route (POST /api/chat with tool classification),  *)
(* the proxy route (POST that pumps the Python backend's stream), the      *)
(* Chat component's turn handling, ChatPage with its FileUpload panel, the *)
(* tool registry and the handlers of its tools.                            *)
(***************************************************************************)
EXTENDS Integers, Sequences, FiniteSets, TLC

\* ------------------------------------------------------------------ bounds
MaxChunks == 2          \* chunks one upstream stream produces at most
MaxToolCalls == 2       \* tool calls one classification carries at most
MaxTurns == 2           \* turns one Chat session submits at most
MaxClock == 3           \* last value of the clock
MaxBackendTurns == 2    \* tool turns the backend handles at most
MaxHandlerCalls == 2    \* invocations of the registry's tool handlers at most
MaxRows == 2            \* rows of the first sheet of a workbook at most
MaxRegisters == 3       \* register calls after module initialisation at most

Req == {"r1", "r2"}                       \* concurrent requests at the chat route
FilePaths == {"f1", "f2"}                 \* dataset references (one per session)
ToolLists == {"T1", "T2"}                 \* bodies GET /api/tools may return
ModelToolNames == {"excelAnalyzer", "bogusTool"}  \* names the model may choose
\* argument mappings the model may attach to a tool call: every field, or the
\* query alone
ModelArgs == {{"filePath", "query", "operation"}, {"query"}}
Null == "null"

\* ---------------------------------------------------------------- registry
\* definitions.ts: the three PydanticTool objects, by name.
tools == {"excelAnalyzer", "databaseQuery", "dataVisualizer"}

\* registry.ts: ToolRegistry after module initialisation (register of each
\* tool of definitions.ts); the map is keyed by tool.name.
registryInit == [n \in tools |-> n]

\* ToolRegistry.get: Map.get, undefined (Null) for a name never registered.
RegistryGet(reg, n) == IF n \in DOMAIN reg THEN reg[n] ELSE Null

\* The fields a tool call must carry: the inputSchema of the registry's tools
\* (definitions.ts:9-13, 44-47) and the `required` arrays of the proxy
\* route's declarations (part_001:20, 33); none is known for any other name.
RequiredFields(n) ==
  CASE n = "excelAnalyzer" -> {"filePath", "query", "operation"}
    [] n = "databaseQuery" -> {"query", "parameters"}
    [] n = "analyzeExcel" -> {"filePath", "query"}
    [] n = "queryDatabase" -> {"query"}
    [] OTHER -> {}

\* ------------------------------------------------------------------ chunks
NoticeChunk(text, names) == [kind |-> "notice", text |-> text, names |-> names, v |-> 0]
DataChunk(v) == [kind |-> "data", text |-> "", names |-> <<>>, v |-> v]

\* metadata.ts:60-61: the tool-naming notice (names joined in call order).
ToolSystemMessage(names) == NoticeChunk("tool", names)
\* metadata.ts:95: the 'answering directly' notice.
DirectSystemMessage == NoticeChunk("direct", <<>>)

RECURSIVE SeqsUpTo(_, _)
SeqsUpTo(S, n) ==
  IF n = 0 THEN {<<>>}
  ELSE LET shorter == SeqsUpTo(S, n - 1)
       IN shorter \cup {Append(s, x) : s \in {t \in shorter : Len(t) = n - 1}, x \in S}

IsPrefix(s, t) == Len(s) <= Len(t) /\ SubSeq(t, 1, Len(s)) = s
Tail1(s) == IF s = <<>> THEN <<>> ELSE Tail(s)

VARIABLES
  \* ---- chat route (src/app/metadata.ts)
  cachedTools,   \* module-level cache of the tool-schema list
  rpc,           \* per request: position in POST
  rFile,         \* per request: filePath of the request body
  rTools,        \* per request: what getTools returned
  rCalls,        \* per request: names of choice.message.tool_calls
  rArgs,         \* per request: argument fields of each tool call, while the
                 \* classification reply is in hand
  rDispatches,   \* per request: fetches of the backend chat API so far
  rDelivered,    \* per request: chunks the consumer has taken from the stream
  rBranch,       \* per request: "none" | "tool" | "direct"
  rResp,         \* per request: the Response returned
  rStrm,         \* per request: state of the ReadableStream
  rOut,          \* per request: chunks enqueued on the controller, in order
  rRead,         \* per request: chunks the upstream reader has returned
  rCur,          \* per request: result of the pending reader.read()
  rTerm,         \* per request: terminal events of the stream (close/error)
  backend,       \* per request: the backend /api/chat call
  rUpOk,         \* per request: backendResponse.ok
  \* ---- proxy route (src/unnamed/part_001)
  pApiUrl,       \* process.env.PYTHON_API_URL as the handler read it
  ppc,           \* position in POST / pump
  pResp,         \* the Response returned
  pStrm,         \* state of the TransformStream as the consumer sees it
  pWritten,      \* chunks passed to writer.write, in order
  pRead,         \* chunks the upstream reader has returned
  pCur,          \* result of the pending reader.read()
  pTerm,         \* terminal events of the stream (close/abort)
  pDelivered,    \* chunks the consumer has taken from stream.readable
  \* ---- Chat component (src/src/lib/tools/registry.ts) under Home
  uploadedFile,  \* prop: the attached dataset, Null while none
  messages,      \* useState: the message list
  input,         \* useState: the text field
  isLoading,     \* useState
  status,        \* useState
  error,         \* useState
  currentResponse, \* useState: text streamed so far, as decoded pieces
  hpc,           \* per handleSubmit invocation: its position
  fullResponse,  \* per invocation: the local fullResponse
  sent,          \* requests sent to /api/chat so far
  now,           \* Date.now()
  turnLog,       \* per finished turn: how its request ended and what it streamed
  \* ---- backend tool handler (Python service, modelled from the design)
  bpc,           \* position of the dataset-analysis handler
  bCode,         \* the GeneratedCode of the turn in hand
  bVerdict,      \* the validator's verdict on it
  bValidations,  \* every validation step so far: turn, code, verdict
  bExecutions,   \* every executor invocation so far: turn, code
  bResults,      \* the ExecutionResult outcome tag of every finished turn
  \* ---- tool handlers (src/src/lib/tools/definitions.ts)
  tpc,           \* position of the databaseQuery handler in hand
  tPending,      \* the completion its try/catch decided, held over the finally
  tLog,          \* how every handler invocation completed, in order
  \* ---- ChatPage with FileUpload (src/app/page.tsx, src/components/file-upload.tsx)
  mounted,       \* the page the browser shows: "Home" (with Chat) or "ChatPage"
  filePath,      \* RootLayout's useState behind FilePathContext
  pgInput,       \* useChat: input
  pgLoading,     \* useChat: isLoading
  pgSent,        \* requests useChat has sent to /api/chat
  pgMessages,    \* useChat: number of messages
  pgToast,       \* the last toast of ChatPage
  fuFile,        \* FileUpload useState: the selected file
  fuUploading,   \* FileUpload useState
  fuXhr,         \* the XMLHttpRequest of handleUpload: in flight, or how it ended
  fuProgress,    \* FileUpload useState: progress, in percent
  fuListed,      \* the mount effect's fetch of the file list has settled
  \* ---- ToolPanel (src/src/lib/tools/registry.ts)
  upFile,        \* ToolPanel useState: file
  uploadStatus,  \* ToolPanel useState
  upError,       \* ToolPanel useState: error
  upFetch,       \* the fetch of handleFileUpload: none, pending, or its response
  \* ---- ToolRegistry (src/src/lib/tools/registry.ts)
  registry,      \* the Map of the exported registry: entries in insertion order
  registered     \* every tool passed to register so far, in call order

routeVars == <<cachedTools, rpc, rFile, rTools, rCalls, rBranch, rResp, rStrm,
               rOut, rRead, rCur, rTerm, backend, rUpOk, rArgs, rDispatches,
               rDelivered>>

proxyVars == <<pApiUrl, ppc, pResp, pStrm, pWritten, pRead, pCur, pTerm, pDelivered>>

chatVars == <<uploadedFile, messages, input, isLoading, status, error,
              currentResponse, hpc, fullResponse, sent, now, turnLog>>

backendVars == <<bpc, bCode, bVerdict, bValidations, bExecutions, bResults>>

handlerVars == <<tpc, tPending, tLog>>

pageVars == <<mounted, filePath, pgInput, pgLoading, pgSent, pgMessages, pgToast,
              fuFile, fuUploading, fuXhr, fuProgress, fuListed>>

panelVars == <<upFile, uploadStatus, upError, upFetch>>

registryVars == <<registry, registered>>

vars == <<routeVars, proxyVars, chatVars, backendVars, handlerVars, pageVars,
          panelVars, registryVars>>

NoResp == [kind |-> "none", status |-> 0, body |-> ""]
NoCur == [t |-> "none", v |-> 0]

RouteInit ==
  /\ cachedTools = Null
  /\ rpc = [r \in Req |-> "idle"]
  /\ rFile = [r \in Req |-> Null]
  /\ rTools = [r \in Req |-> Null]
  /\ rCalls = [r \in Req |-> <<>>]
  /\ rBranch = [r \in Req |-> "none"]
  /\ rResp = [r \in Req |-> NoResp]
  /\ rStrm = [r \in Req |-> "none"]
  /\ rOut = [r \in Req |-> <<>>]
  /\ rRead = [r \in Req |-> <<>>]
  /\ rCur = [r \in Req |-> NoCur]
  /\ rTerm = [r \in Req |-> 0]
  /\ backend = [r \in Req |-> "none"]
  /\ rUpOk = [r \in Req |-> TRUE]
  /\ rArgs = [r \in Req |-> <<>>]
  /\ rDispatches = [r \in Req |-> 0]
  /\ rDelivered = [r \in Req |-> 0]

\* metadata.ts:126-134: the catch of POST.
CatchResponse(err) ==
  IF err.api
    THEN [kind |-> "error", status |-> err.status, body |-> err.message]
    ELSE [kind |-> "error", status |-> 500, body |-> "An error occurred"]

ApiErrors == {[api |-> TRUE, status |-> 429, message |-> "raw:rate limit"]}
OtherErrors == {[api |-> FALSE, status |-> 0, message |-> "raw:TypeError"]}

\* metadata.ts:40-41 and getTools 21-26: the body is parsed, the cache is
\* consulted; a hit returns it, a miss starts the fetch of /api/tools.
POST_Start(r) ==
  /\ rpc[r] = "idle"
  /\ \E f \in FilePaths, parsed \in BOOLEAN :
       IF ~parsed
         THEN /\ rpc' = [rpc EXCEPT ![r] = "returned"]
              /\ rResp' = [rResp EXCEPT ![r] = CatchResponse(CHOOSE e \in OtherErrors : TRUE)]
              /\ UNCHANGED <<rFile, rTools>>
         ELSE /\ rFile' = [rFile EXCEPT ![r] = f]
              /\ rResp' = rResp
              /\ IF cachedTools # Null
                   THEN /\ rTools' = [rTools EXCEPT ![r] = cachedTools]
                        /\ rpc' = [rpc EXCEPT ![r] = "classify"]
                   ELSE /\ rTools' = rTools
                        /\ rpc' = [rpc EXCEPT ![r] = "fetchTools"]
  /\ UNCHANGED <<cachedTools, rCalls, rBranch, rStrm, rOut, rRead, rCur, rTerm,
                 backend, rUpOk, rArgs, rDispatches, rDelivered>>

\* getTools 26-35: the fetch settles; success stores and returns the list, any
\* failure returns null and leaves the cache alone.
GetToolsSettle(r) ==
  /\ rpc[r] = "fetchTools"
  /\ \/ \E t \in ToolLists :
          /\ cachedTools' = t
          /\ rTools' = [rTools EXCEPT ![r] = t]
     \/ /\ rTools' = [rTools EXCEPT ![r] = Null]
        /\ UNCHANGED cachedTools
  /\ rpc' = [rpc EXCEPT ![r] = "classify"]
  /\ UNCHANGED <<rFile, rCalls, rBranch, rResp, rStrm, rOut, rRead, rCur, rTerm,
                 backend, rUpOk, rArgs, rDispatches, rDelivered>>

\* metadata.ts:59: the branch test on the model's reply.
UsesTool_TwoOrMore(calls) == Len(calls) > 1
UsesTool(calls) == Len(calls) > 0

\* metadata.ts:44-73 and 93-105: the classification call settles. With tool
\* calls the backend chat API is called (one fetch, whatever the names, the
\* arguments and however many); without, the streaming completion is
\* requested.
Classify(r) ==
  /\ rpc[r] = "classify"
  /\ \/ \E e \in ApiErrors \cup OtherErrors :
          /\ rResp' = [rResp EXCEPT ![r] = CatchResponse(e)]
          /\ rpc' = [rpc EXCEPT ![r] = "returned"]
          /\ rTools' = [rTools EXCEPT ![r] = Null]
          /\ UNCHANGED <<rCalls, rBranch, backend, rArgs, rDispatches>>
     \/ \E calls \in SeqsUpTo(ModelToolNames, MaxToolCalls) :
        \E args \in [1..Len(calls) -> ModelArgs] :
          /\ rCalls' = [rCalls EXCEPT ![r] = calls]
          /\ rArgs' = [rArgs EXCEPT ![r] = args]
          /\ rTools' = [rTools EXCEPT ![r] = Null]
          /\ rResp' = rResp
          /\ IF UsesTool(calls)
               THEN /\ rBranch' = [rBranch EXCEPT ![r] = "tool"]
                    /\ backend' = [backend EXCEPT ![r] = "running"]
                    /\ rDispatches' = [rDispatches EXCEPT ![r] = @ + 1]
                    /\ rpc' = [rpc EXCEPT ![r] = "backendFetch"]
               ELSE /\ rBranch' = [rBranch EXCEPT ![r] = "direct"]
                    /\ UNCHANGED <<backend, rDispatches>>
                    /\ rpc' = [rpc EXCEPT ![r] = "directCreate"]
  /\ UNCHANGED <<cachedTools, rFile, rStrm, rOut, rRead, rCur, rTerm, rUpOk,
                 rDelivered>>

\* ReadableStream.start up to its first await (metadata.ts:77-84 / 109-116):
\* the notice is enqueued, then the reader is taken and the first read issued.
StartChunks_NoNotice(notice) == <<>>
StartChunks(notice) == <<notice>>

\* metadata.ts:64-92: the backend fetch settles. A rejection goes to the
\* catch; any response, OK or not, is wrapped in a stream. body!.getReader()
\* on a body-less response throws inside start, which errors the stream.
BackendSettle(r) ==
  /\ rpc[r] = "backendFetch"
  /\ \/ /\ rResp' = [rResp EXCEPT ![r] = CatchResponse(CHOOSE e \in OtherErrors : TRUE)]
        /\ rpc' = [rpc EXCEPT ![r] = "returned"]
        /\ backend' = [backend EXCEPT ![r] = "failed"]
        /\ UNCHANGED <<rStrm, rOut, rTerm, rUpOk>>
     \/ \E ok \in BOOLEAN, hasBody \in BOOLEAN :
          /\ rUpOk' = [rUpOk EXCEPT ![r] = ok]
          /\ rResp' = [rResp EXCEPT ![r] = [kind |-> "stream", status |-> 200, body |-> ""]]
          /\ rOut' = [rOut EXCEPT ![r] = StartChunks(ToolSystemMessage(rCalls[r]))]
          /\ IF hasBody
               THEN /\ rStrm' = [rStrm EXCEPT ![r] = "open"]
                    /\ rpc' = [rpc EXCEPT ![r] = "reading"]
                    /\ UNCHANGED <<rTerm, backend>>
               ELSE /\ rStrm' = [rStrm EXCEPT ![r] = "errored"]
                    /\ rTerm' = [rTerm EXCEPT ![r] = @ + 1]
                    /\ rpc' = [rpc EXCEPT ![r] = "returned"]
                    /\ backend' = [backend EXCEPT ![r] = "done"]
  /\ rArgs' = [rArgs EXCEPT ![r] = <<>>]
  /\ UNCHANGED <<cachedTools, rFile, rTools, rCalls, rBranch, rRead, rCur,
                 rDispatches, rDelivered>>

\* metadata.ts:96-124: the streaming completion settles.
DirectSettle(r) ==
  /\ rpc[r] = "directCreate"
  /\ \/ \E e \in ApiErrors \cup OtherErrors :
          /\ rResp' = [rResp EXCEPT ![r] = CatchResponse(e)]
          /\ rpc' = [rpc EXCEPT ![r] = "returned"]
          /\ UNCHANGED <<rStrm, rOut>>
     \/ /\ rResp' = [rResp EXCEPT ![r] = [kind |-> "stream", status |-> 200, body |-> ""]]
        /\ rOut' = [rOut EXCEPT ![r] = StartChunks(DirectSystemMessage)]
        /\ rStrm' = [rStrm EXCEPT ![r] = "open"]
        /\ rpc' = [rpc EXCEPT ![r] = "reading"]
  /\ UNCHANGED <<cachedTools, rFile, rTools, rCalls, rBranch, rRead, rCur, rTerm,
                 backend, rUpOk, rArgs, rDispatches, rDelivered>>

\* The payload of the upstream's next chunk: chunks are told apart by their
\* position in the upstream's output.
NextPayload(read) == Len(read) + 1

\* The pending reader.read() settles (metadata.ts:84 / 116): the upstream
\* hands over its next chunk, reports its end, or fails.
UpstreamRead(r) ==
  /\ rpc[r] = "reading"
  /\ \/ /\ Len(rRead[r]) < MaxChunks
        /\ rRead' = [rRead EXCEPT ![r] = Append(@, DataChunk(NextPayload(@)))]
        /\ rCur' = [rCur EXCEPT ![r] = [t |-> "value", v |-> NextPayload(rRead[r])]]
        /\ backend' = backend
     \/ /\ rCur' = [rCur EXCEPT ![r] = [t |-> "done", v |-> 0]]
        /\ backend' = [backend EXCEPT ![r] = IF @ = "running" THEN "done" ELSE @]
        /\ rRead' = rRead
     \/ /\ rCur' = [rCur EXCEPT ![r] = [t |-> "error", v |-> 0]]
        /\ backend' = [backend EXCEPT ![r] = IF @ = "running" THEN "failed" ELSE @]
        /\ rRead' = rRead
  /\ rpc' = [rpc EXCEPT ![r] = "relay"]
  /\ UNCHANGED <<cachedTools, rFile, rTools, rCalls, rBranch, rResp, rStrm, rOut,
                 rTerm, rUpOk, rArgs, rDispatches, rDelivered>>

\* metadata.ts:85-86 / 117-118: what the loop body does with a chunk.
RelayEnqueue_Twice(out, v) == Append(Append(out, DataChunk(v)), DataChunk(v))
RelayEnqueue(out, v) == Append(out, DataChunk(v))

\* The continuation of the await (metadata.ts:84-88 / 116-120): enqueue and
\* read again, or close on done; a rejected read rejects start, which errors
\* the stream. On a stream the consumer has cancelled, enqueue and close
\* throw: start rejects, the loop is left and the upstream reader is neither
\* read again nor cancelled.
RelayStep(r) ==
  /\ rpc[r] = "relay"
  /\ CASE rStrm[r] = "cancelled" ->
            /\ rpc' = [rpc EXCEPT ![r] = "returned"]
            /\ UNCHANGED <<rOut, rStrm, rTerm>>
       [] rCur[r].t = "value" ->
            /\ rOut' = [rOut EXCEPT ![r] = RelayEnqueue(@, rCur[r].v)]
            /\ rpc' = [rpc EXCEPT ![r] = "reading"]
            /\ UNCHANGED <<rStrm, rTerm>>
       [] rCur[r].t = "done" ->
            /\ rStrm' = [rStrm EXCEPT ![r] = "closed"]
            /\ rTerm' = [rTerm EXCEPT ![r] = @ + 1]
            /\ rpc' = [rpc EXCEPT ![r] = "returned"]
            /\ rOut' = rOut
       [] OTHER ->
            /\ rStrm' = [rStrm EXCEPT ![r] = "errored"]
            /\ rTerm' = [rTerm EXCEPT ![r] = @ + 1]
            /\ rpc' = [rpc EXCEPT ![r] = "returned"]
            /\ rOut' = rOut
  /\ rCur' = [rCur EXCEPT ![r] = NoCur]
  /\ UNCHANGED <<cachedTools, rFile, rTools, rCalls, rBranch, rResp, rRead,
                 backend, rUpOk, rArgs, rDispatches, rDelivered>>

\* The consumer of the Response body takes the next queued chunk.
Consumer_Read(r) ==
  /\ rStrm[r] \in {"open", "closed"}
  /\ rDelivered[r] < Len(rOut[r])
  /\ rDelivered' = [rDelivered EXCEPT ![r] = @ + 1]
  /\ UNCHANGED <<cachedTools, rpc, rFile, rTools, rCalls, rBranch, rResp, rStrm,
                 rOut, rRead, rCur, rTerm, backend, rUpOk, rArgs, rDispatches>>

\* The consumer disconnects: the body stream is cancelled (the underlying
\* source of metadata.ts:76 / 108 has no cancel callback).
Consumer_Cancel(r) ==
  /\ rStrm[r] = "open"
  /\ rStrm' = [rStrm EXCEPT ![r] = "cancelled"]
  /\ UNCHANGED <<cachedTools, rpc, rFile, rTools, rCalls, rBranch, rResp, rOut,
                 rRead, rCur, rTerm, backend, rUpOk, rArgs, rDispatches,
                 rDelivered>>

RouteStep(r) ==
  \/ POST_Start(r)
  \/ GetToolsSettle(r)
  \/ Classify(r)
  \/ BackendSettle(r)
  \/ DirectSettle(r)
  \/ UpstreamRead(r)
  \/ RelayStep(r)

RouteNext == \E r \in Req : RouteStep(r)

\* ------------------------------------------------------------- proxy route
ProxyInit ==
  /\ pApiUrl = "unread"
  /\ ppc = "idle"
  /\ pResp = NoResp
  /\ pStrm = "none"
  /\ pWritten = <<>>
  /\ pRead = <<>>
  /\ pCur = NoCur
  /\ pTerm = 0
  /\ pDelivered = <<>>

\* part_001:97-100: the catch of POST.
ProxyCatchResponse == [kind |-> "error", status |-> 500, body |-> "Internal Server Error"]

\* part_001:41-56: the body is parsed and the backend is called; a missing
\* PYTHON_API_URL or an unparseable body goes to the catch.
Proxy_Start ==
  /\ ppc = "idle"
  /\ \E parsed \in BOOLEAN, url \in {Null, "http://127.0.0.1:8000/api/chat"} :
       /\ pApiUrl' = IF parsed THEN url ELSE pApiUrl
       /\ IF ~parsed \/ url = Null
            THEN /\ ppc' = "returned"
                 /\ pResp' = ProxyCatchResponse
            ELSE /\ ppc' = "fetch"
                 /\ pResp' = pResp
  /\ UNCHANGED <<pStrm, pWritten, pRead, pCur, pTerm, pDelivered>>

\* part_001:69: the pump is started only when the response has a body.
PumpStarts(hasBody) == hasBody

\* part_001:50-96: the fetch settles. A rejection or a non-OK response goes
\* to the catch; otherwise the TransformStream is created, the pump is started
\* when there is a reader, and the readable side is returned.
Proxy_FetchSettle ==
  /\ ppc = "fetch"
  /\ \/ /\ pResp' = ProxyCatchResponse
        /\ ppc' = "returned"
        /\ pStrm' = pStrm
     \/ \E hasBody \in BOOLEAN :
          /\ pResp' = [kind |-> "stream", status |-> 200, body |-> ""]
          /\ pStrm' = "open"
          /\ ppc' = IF PumpStarts(hasBody) THEN "reading" ELSE "returned"
  /\ UNCHANGED <<pApiUrl, pWritten, pRead, pCur, pTerm, pDelivered>>

\* part_001:74: the pending reader.read() settles.
Pump_Read ==
  /\ ppc = "reading"
  /\ \/ /\ Len(pRead) < MaxChunks
        /\ pRead' = Append(pRead, DataChunk(NextPayload(pRead)))
        /\ pCur' = [t |-> "value", v |-> NextPayload(pRead)]
     \/ /\ pCur' = [t |-> "done", v |-> 0]
        /\ pRead' = pRead
     \/ /\ pCur' = [t |-> "error", v |-> 0]
        /\ pRead' = pRead
  /\ ppc' = "relay"
  /\ UNCHANGED <<pApiUrl, pResp, pStrm, pWritten, pTerm, pDelivered>>

\* part_001:79: what the pump writes for a chunk it read.
PumpWrite(written, v) == Append(written, DataChunk(v))

\* part_001:75-84: the continuation of the read: close on done, write the
\* chunk and wait for the write otherwise; the catch aborts the writer.
Pump_Relay ==
  /\ ppc = "relay"
  /\ CASE pCur.t = "value" ->
            /\ pWritten' = PumpWrite(pWritten, pCur.v)
            /\ ppc' = "awaitWrite"
            /\ UNCHANGED <<pStrm, pTerm>>
       [] pCur.t = "done" ->
            /\ pStrm' = "closed"
            /\ pTerm' = pTerm + 1
            /\ ppc' = "returned"
            /\ pWritten' = pWritten
       [] OTHER ->
            /\ pStrm' = "aborted"
            /\ pTerm' = pTerm + 1
            /\ ppc' = "returned"
            /\ pWritten' = pWritten
  /\ pCur' = NoCur
  /\ UNCHANGED <<pApiUrl, pResp, pRead, pDelivered>>

\* part_001:79: await writer.write(value) resolves once the consumer has
\* taken the chunk from the readable side; the loop reads again.
Pump_WriteDone ==
  /\ ppc = "awaitWrite"
  /\ pDelivered' = Append(pDelivered, pWritten[Len(pWritten)])
  /\ ppc' = "reading"
  /\ UNCHANGED <<pApiUrl, pResp, pStrm, pWritten, pRead, pCur, pTerm>>

ProxyNext ==
  \/ Proxy_Start
  \/ Proxy_FetchSettle
  \/ Pump_Read
  \/ Pump_Relay
  \/ Pump_WriteDone

\* ---------------------------------------------------------- Chat component
Inv == {1, 2}                              \* handleSubmit invocations alive at once
Inputs == {"", " ", "q"}                   \* contents of the text field
ClientChunks == {"ab", "a+half"}           \* byte chunks; the second ends inside a character

\* The k-th chunk of a response body: the body is cut inside a character at
\* the end of every even chunk.
StreamChunk(k) == IF k % 2 = 0 THEN "a+half" ELSE "ab"

\* registry.ts:97 / 289: input.trim()
Trim(str) == IF str = " " THEN "" ELSE str

\* registry.ts:142: decoder.decode(value), each chunk decoded on its own, so
\* an incomplete trailing byte sequence becomes U+FFFD.
Decode(chunk) == IF chunk = "a+half" THEN "a<U+FFFD>" ELSE chunk

\* registry.ts:217: message.content.length, a decoded chunk standing for
\* PieceChars characters of text; the collapse button is rendered above
\* CollapseThreshold.
PieceChars == 200
CollapseThreshold == 300
ContentLength(content) == Len(content) * PieceChars

\* registry.ts:104 / 153: Date.now().toString()
NowId(t) == ToString(t)

ChatInit ==
  /\ uploadedFile = Null
  /\ messages = <<>>
  /\ input = ""
  /\ isLoading = FALSE
  /\ status = ""
  /\ error = Null
  /\ currentResponse = <<>>
  /\ hpc = [i \in Inv |-> "idle"]
  /\ fullResponse = [i \in Inv |-> <<>>]
  /\ sent = 0
  /\ now = 1
  /\ turnLog = <<>>

Active == {i \in Inv : hpc[i] # "idle"}

\* src/src/app/page.tsx:22-25: Home.handleFileUpload replaces the prop.
Home_handleFileUpload ==
  /\ \E f \in FilePaths : uploadedFile' = f
  /\ UNCHANGED <<messages, input, isLoading, status, error, currentResponse,
                 hpc, fullResponse, sent, now, turnLog>>

\* registry.ts:285 / 289: the test `!uploadedFile` of both disabled props.
FileAttached_Always == TRUE
FileAttached == uploadedFile # Null

\* registry.ts:284-285: onChange of the text field, which is disabled without
\* a file and while loading.
InputEnabled == FileAttached /\ ~isLoading

Chat_onChange ==
  /\ InputEnabled
  /\ \E v \in Inputs : input' = v
  /\ UNCHANGED <<uploadedFile, messages, isLoading, status, error, currentResponse,
                 hpc, fullResponse, sent, now, turnLog>>

\* registry.ts:278-302: the form can be submitted only through the submit
\* button or the text field, and neither is usable while the button is
\* disabled.
SubmitEnabled_NoLoadingCheck == Trim(input) # "" /\ uploadedFile # Null
SubmitEnabled == ~isLoading /\ Trim(input) # "" /\ FileAttached

UserMessage(text, t) == [role |-> "user", content |-> <<text>>, id |-> NowId(t), isCollapsed |-> FALSE]
AssistantMessage(full, t) == [role |-> "assistant", content |-> full, id |-> NowId(t), isCollapsed |-> FALSE]

\* registry.ts:95-127: handleSubmit up to the await of fetch.
Chat_handleSubmit ==
  /\ SubmitEnabled
  /\ Trim(input) # ""
  /\ sent < MaxTurns
  /\ Active # Inv
  /\ LET i == CHOOSE k \in Inv \ Active : \A m \in Inv \ Active : k <= m
     IN /\ hpc' = [hpc EXCEPT ![i] = "fetch"]
        /\ fullResponse' = [fullResponse EXCEPT ![i] = <<>>]
  /\ error' = Null
  /\ status' = "processing"
  /\ currentResponse' = <<>>
  /\ isLoading' = TRUE
  /\ messages' = Append(messages, UserMessage(input, now))
  /\ sent' = sent + 1
  /\ UNCHANGED <<uploadedFile, input, now, turnLog>>

\* registry.ts:162-165: the finally block.
FinallyState_Skipped(st, ld) == [status |-> st, isLoading |-> ld]
FinallyState(st, ld) == [status |-> "", isLoading |-> FALSE]

\* registry.ts:159-161: the catch block leaves the message list alone.
CatchMessages_AppendPartial(msgs, full, t) == Append(msgs, AssistantMessage(full, t))
CatchMessages(msgs, full, t) == msgs

\* registry.ts:148-158 then 162-165: the turn's success path.
TurnSucceeds(i) ==
  /\ messages' = Append(messages, AssistantMessage(fullResponse[i], now))
  /\ currentResponse' = <<>>
  /\ input' = ""
  /\ error' = error
  /\ status' = FinallyState(status, isLoading).status
  /\ isLoading' = FinallyState(status, isLoading).isLoading
  /\ hpc' = [hpc EXCEPT ![i] = "idle"]
  /\ turnLog' = Append(turnLog, [outcome |-> "ok", text |-> fullResponse[i]])

\* registry.ts:159-165: the turn's failure path.
TurnFails(i, msg) ==
  /\ messages' = CatchMessages(messages, fullResponse[i], now)
  /\ error' = msg
  /\ status' = FinallyState(status, isLoading).status
  /\ isLoading' = FinallyState(status, isLoading).isLoading
  /\ hpc' = [hpc EXCEPT ![i] = "idle"]
  /\ turnLog' = Append(turnLog, [outcome |-> "fail", text |-> fullResponse[i]])
  /\ UNCHANGED <<currentResponse, input>>

\* registry.ts:121-137: the fetch settles: rejection, non-OK response, a
\* response without a body (no loop) or one with a body (first read).
Chat_FetchSettle(i) ==
  /\ hpc[i] = "fetch"
  /\ \/ TurnFails(i, "network error")
     \/ TurnFails(i, "server response error")
     \/ TurnSucceeds(i)
     \/ /\ hpc' = [hpc EXCEPT ![i] = "read"]
        /\ UNCHANGED <<messages, input, isLoading, status, error, currentResponse, turnLog>>
  /\ UNCHANGED <<uploadedFile, fullResponse, sent, now>>

\* registry.ts:138-146: a read settles with a chunk.
Chat_ReadChunk(i) ==
  /\ hpc[i] = "read"
  /\ Len(fullResponse[i]) < MaxChunks
  /\ LET c == StreamChunk(Len(fullResponse[i]) + 1)
     IN /\ c \in ClientChunks
        /\ fullResponse' = [fullResponse EXCEPT ![i] = Append(@, Decode(c))]
        /\ currentResponse' = Append(currentResponse, Decode(c))
  /\ UNCHANGED <<uploadedFile, messages, input, isLoading, status, error, hpc,
                 sent, now, turnLog>>

\* registry.ts:139-140 and 148-165: a read settles with done, or rejects.
Chat_ReadEnd(i) ==
  /\ hpc[i] = "read"
  /\ \/ TurnSucceeds(i)
     \/ TurnFails(i, "network error")
  /\ UNCHANGED <<uploadedFile, fullResponse, sent, now>>

\* registry.ts:74-78: the map of toggleMessageCollapse.
ToggleCollapse_KeepsMatchingOnly(msgs, messageId) ==
  LET Matches(m) == m.id = messageId
      kept == SelectSeq(msgs, Matches)
  IN [k \in 1..Len(kept) |-> [kept[k] EXCEPT !.isCollapsed = ~@]]
ToggleCollapse(msgs, messageId) ==
  [k \in 1..Len(msgs) |->
     IF msgs[k].id = messageId THEN [msgs[k] EXCEPT !.isCollapsed = ~@] ELSE msgs[k]]

\* registry.ts:73-79 and 217-219: a click on the collapse button of a long
\* assistant message.
Chat_toggleMessageCollapse ==
  /\ \E k \in 1..Len(messages) :
       /\ messages[k].role = "assistant"
       /\ ContentLength(messages[k].content) > CollapseThreshold
       /\ messages' = ToggleCollapse(messages, messages[k].id)
  /\ UNCHANGED <<uploadedFile, input, isLoading, status, error, currentResponse,
                 hpc, fullResponse, sent, now, turnLog>>

\* The clock behind Date.now().
Tick ==
  /\ now < MaxClock
  /\ now' = now + 1
  /\ UNCHANGED <<uploadedFile, messages, input, isLoading, status, error,
                 currentResponse, hpc, fullResponse, sent, turnLog>>

ChatNext ==
  \/ Home_handleFileUpload
  \/ Chat_onChange
  \/ Chat_handleSubmit
  \/ \E i \in Inv : Chat_FetchSettle(i)
  \/ \E i \in Inv : Chat_ReadChunk(i)
  \/ \E i \in Inv : Chat_ReadEnd(i)
  \/ Chat_toggleMessageCollapse
  \/ Tick

\* ------------------------------------------------- backend tool handler
\* The dataset-analysis handler: Code Generator, then Code Validator, then
\* Sandbox Executor, in that order, once per dispatched tool turn.

\* Capability Allowlist: the deny-listed call names and the permitted imports.
DenylistedCalls == {"exec", "eval", "compile", "open", "__import__"}
AllowedImports == {"pandas", "numpy", "math"}

\* A name begins and ends with a double underscore (names as token lists).
IsDunder(name) == Len(name) >= 2 /\ name[1] = "__" /\ name[Len(name)] = "__"

Snippet(parses, imports, calls, attrs) ==
  [parses |-> parses, imports |-> imports, calls |-> calls, attrs |-> attrs]

\* Candidate code texts the generator may return, by abstract structure.
GeneratedCodes ==
  { Snippet(TRUE, {}, {"len"}, {<<"shape">>}),
    Snippet(TRUE, {"pandas"}, {"sum"}, {<<"__", "x">>}),
    Snippet(TRUE, {}, {"exec"}, {}),
    Snippet(TRUE, {}, {"len", "eval"}, {}),
    Snippet(TRUE, {}, {"open"}, {<<"shape">>}),
    Snippet(TRUE, {}, {"__import__"}, {}),
    Snippet(TRUE, {}, {"len"}, {<<"__", "class", "__">>}),
    Snippet(TRUE, {"os"}, {"system"}, {}),
    Snippet(FALSE, {}, {}, {}) }

NoCode == Snippet(FALSE, {}, {}, {<<"none">>})

\* Code Validator: validate(code_text, allowlist).
Validate_ForgetsEval(code) ==
  IF ~code.parses THEN "rejected"
  ELSE IF code.calls \cap (DenylistedCalls \ {"eval"}) # {} THEN "rejected"
  ELSE IF \E a \in code.attrs : IsDunder(a) THEN "rejected"
  ELSE IF ~(code.imports \subseteq AllowedImports) THEN "rejected"
  ELSE "accepted"
Validate(code) ==
  IF ~code.parses THEN "rejected"
  ELSE IF code.calls \cap DenylistedCalls # {} THEN "rejected"
  ELSE IF \E a \in code.attrs : IsDunder(a) THEN "rejected"
  ELSE IF ~(code.imports \subseteq AllowedImports) THEN "rejected"
  ELSE "accepted"

ExecutionOutcomes == {"success", "timeout", "memory_exceeded", "runtime_error"}

BackendInit ==
  /\ bpc = "idle"
  /\ bCode = NoCode
  /\ bVerdict = "none"
  /\ bValidations = <<>>
  /\ bExecutions = <<>>
  /\ bResults = <<>>

BackendTurn == Len(bResults) + 1

\* A tool turn is dispatched to the handler.
Backend_Dispatch ==
  /\ bpc = "idle"
  /\ Len(bResults) < MaxBackendTurns
  /\ bpc' = "generate"
  /\ UNCHANGED <<bCode, bVerdict, bValidations, bExecutions, bResults>>

\* Code Generator: one candidate, or a failed/empty generation, which is a
\* runtime_error result before validation is attempted.
Backend_Generate ==
  /\ bpc = "generate"
  /\ \/ \E c \in GeneratedCodes :
          /\ bCode' = c
          /\ bpc' = "validate"
          /\ UNCHANGED bResults
     \/ /\ bResults' = Append(bResults, "runtime_error")
        /\ bpc' = "idle"
        /\ UNCHANGED bCode
  /\ UNCHANGED <<bVerdict, bValidations, bExecutions>>

\* Code Validator runs on the generated code.
Backend_Validate ==
  /\ bpc = "validate"
  /\ bVerdict' = Validate(bCode)
  /\ bValidations' = Append(bValidations,
                            [turn |-> BackendTurn, code |-> bCode, verdict |-> Validate(bCode)])
  /\ bpc' = "validated"
  /\ UNCHANGED <<bCode, bExecutions, bResults>>

\* Only accepted code goes on to the executor.
MayExecute(verdict) == verdict = "accepted"

\* Sandbox Executor for accepted code; a validation_rejected result otherwise.
Backend_Run ==
  /\ bpc = "validated"
  /\ IF MayExecute(bVerdict)
       THEN /\ bExecutions' = Append(bExecutions, [turn |-> BackendTurn, code |-> bCode])
            /\ \E o \in ExecutionOutcomes : bResults' = Append(bResults, o)
       ELSE /\ bResults' = Append(bResults, "validation_rejected")
            /\ UNCHANGED bExecutions
  /\ bpc' = "idle"
  /\ bCode' = NoCode
  /\ bVerdict' = "none"
  /\ UNCHANGED bValidations

BackendNext ==
  \/ Backend_Dispatch
  \/ Backend_Generate
  \/ Backend_Validate
  \/ Backend_Run

\* ----------------------------------------------------------- tool handlers
\* How an async handler completes: its promise fulfils with a value (a result
\* object with or without an error field) or rejects with what was thrown.
Return(err, data) == [completion |-> "return", error |-> err, data |-> data]
Throw(err) == [completion |-> "throw", error |-> err, data |-> Null]
NoCompletion == [completion |-> "none", error |-> Null, data |-> Null]

Operations == {"summary", "analyze", "other"}

\* definitions.ts:14-38: tools.excelAnalyzer.handler, with the workbook as the
\* file system gives it (readable or not, rows of its first sheet). Nothing
\* is awaited: the handler runs to its return in one step. On an empty sheet
\* Object.keys(data[0]) throws inside the try.
excelAnalyzer(readable, rows, operation) ==
  IF ~readable THEN Return("ENOENT", Null)
  ELSE CASE operation = "summary" ->
              IF rows = 0 THEN Return("TypeError", Null)
              ELSE Return(Null, <<"summary", rows>>)
         [] operation = "analyze" -> Return(Null, <<"result", 0>>)
         [] OTHER -> Return("unsupported operation", Null)

HandlerInit ==
  /\ tpc = "idle"
  /\ tPending = NoCompletion
  /\ tLog = <<>>

ExcelAnalyzer_handler ==
  /\ tpc = "idle"
  /\ Len(tLog) < MaxHandlerCalls
  /\ \E readable \in BOOLEAN, rows \in 0..MaxRows, operation \in Operations :
       tLog' = Append(tLog, excelAnalyzer(readable, rows, operation))
  /\ UNCHANGED <<tpc, tPending>>

\* definitions.ts:48-57: databaseQuery.handler up to await sql.connect.
DatabaseQuery_handler ==
  /\ tpc = "idle"
  /\ Len(tLog) < MaxHandlerCalls
  /\ tpc' = "connect"
  /\ UNCHANGED <<tPending, tLog>>

\* definitions.ts:50-63: sql.connect settles; a rejection is caught and the
\* error result held while the finally runs.
DatabaseQuery_ConnectSettle ==
  /\ tpc = "connect"
  /\ \/ tpc' = "query" /\ tPending' = tPending
     \/ tpc' = "close" /\ tPending' = Return("ConnectionError", Null)
  /\ tLog' = tLog

\* definitions.ts:60-63: sql.query settles.
DatabaseQuery_QuerySettle ==
  /\ tpc = "query"
  /\ \/ tPending' = Return(Null, <<"recordset", 0>>)
     \/ tPending' = Return("RequestError", Null)
  /\ tpc' = "close"
  /\ tLog' = tLog

\* definitions.ts:64-66: the finally awaits sql.close(); when it resolves the
\* held completion stands, when it rejects the rejection replaces it.
DatabaseQuery_CloseSettle ==
  /\ tpc = "close"
  /\ \/ tLog' = Append(tLog, tPending)
     \/ tLog' = Append(tLog, Throw("close failed"))
  /\ tpc' = "idle"
  /\ tPending' = NoCompletion

HandlerNext ==
  \/ ExcelAnalyzer_handler
  \/ DatabaseQuery_handler
  \/ DatabaseQuery_ConnectSettle
  \/ DatabaseQuery_QuerySettle
  \/ DatabaseQuery_CloseSettle

\* ------------------------------------------------- ChatPage and FileUpload
Pages == {"Home", "ChatPage"}
PageInputs == {"", "q"}

\* layout.tsx:18 and the useState initial values of FileUpload and useChat.
PageInit ==
  /\ filePath = Null
  /\ pgInput = ""
  /\ pgLoading = FALSE
  /\ pgSent = 0
  /\ pgMessages = 0
  /\ pgToast = Null
  /\ fuFile = Null
  /\ fuUploading = FALSE
  /\ fuXhr = "none"
  /\ fuProgress = 0
  /\ fuListed = FALSE

\* file-upload.tsx:39-62: the mount effect's fetch settles; with a non-empty
\* list the last file's path becomes the file path.
FileUpload_fetchUploadedFiles ==
  /\ ~fuListed
  /\ fuListed' = TRUE
  /\ \/ \E f \in FilePaths : filePath' = f
     \/ filePath' = filePath
  /\ UNCHANGED <<mounted, pgInput, pgLoading, pgSent, pgMessages, pgToast,
                 fuFile, fuUploading, fuXhr, fuProgress>>

\* file-upload.tsx:142-146: the Dropzone selects a file.
FileUpload_onFileSelect ==
  /\ fuFile' = "file"
  /\ fuFile # "file"
  /\ UNCHANGED <<mounted, filePath, pgInput, pgLoading, pgSent, pgMessages,
                 pgToast, fuUploading, fuXhr, fuProgress, fuListed>>

\* file-upload.tsx:64-109 and 148-151: a click on the upload button (disabled
\* without a file and while uploading) resets the progress and sends a new
\* XMLHttpRequest.
FileUpload_handleUpload ==
  /\ fuFile # Null /\ ~fuUploading
  /\ fuUploading' = TRUE
  /\ fuProgress' = 0
  /\ fuXhr' = "sent"
  /\ UNCHANGED <<mounted, filePath, pgInput, pgLoading, pgSent, pgMessages,
                 pgToast, fuFile, fuListed>>

\* file-upload.tsx:79-80: the rounded percentages a progress event reports.
Percents == {50, 100}

\* file-upload.tsx:77-82: xhr.upload.onprogress.
FileUpload_onprogress ==
  /\ fuXhr = "sent"
  /\ \E pct \in Percents : pct > fuProgress /\ fuProgress' = pct
  /\ UNCHANGED <<mounted, filePath, pgInput, pgLoading, pgSent, pgMessages,
                 pgToast, fuFile, fuUploading, fuXhr, fuListed>>

\* The events that end an XMLHttpRequest: load (with status 200 and a body
\* that parses, with status 200 and a body that does not, with another
\* status), error, and abort (the user agent cancels the transfer).
XhrEvents == {"load ok", "load unparseable", "load http error", "error", "abort"}

\* file-upload.tsx:84-106: the events handleUpload registers a handler for.
XhrHandled == {"load ok", "load unparseable", "load http error", "error"}

\* file-upload.tsx:85-90: the event on which onload reaches setFilePath.
SetsFilePath_AnyLoad(ev) == ev \in {"load ok", "load http error"}
SetsFilePath(ev) == ev = "load ok"

\* file-upload.tsx:84-120: the request ends. onload with a 200 answer that
\* parses sets the file path and resolves, onload otherwise and onerror
\* reject; then the catch toasts and the finally resets the form. An event
\* without a handler leaves the promise pending, and the form as it is.
FileUpload_XhrSettle ==
  /\ fuXhr = "sent"
  /\ \E ev \in XhrEvents :
       /\ fuXhr' = ev
       /\ IF ev \in XhrHandled
            THEN /\ IF SetsFilePath(ev)
                      THEN \E f \in FilePaths : filePath' = f
                      ELSE filePath' = filePath
                 /\ fuUploading' = FALSE
                 /\ fuFile' = Null
                 /\ fuProgress' = 0
            ELSE UNCHANGED <<filePath, fuUploading, fuFile, fuProgress>>
  /\ UNCHANGED <<mounted, pgInput, pgLoading, pgSent, pgMessages, pgToast, fuListed>>

FileUploadNext ==
  \/ FileUpload_fetchUploadedFiles
  \/ FileUpload_onFileSelect
  \/ FileUpload_handleUpload
  \/ FileUpload_onprogress
  \/ FileUpload_XhrSettle

\* page.tsx:103-106: the text field, disabled without a file path and while
\* loading.
ChatPage_handleInputChange ==
  /\ filePath # Null /\ ~pgLoading
  /\ \E v \in PageInputs : v # pgInput /\ pgInput' = v
  /\ UNCHANGED <<mounted, filePath, pgLoading, pgSent, pgMessages, pgToast,
                 fuFile, fuUploading, fuXhr, fuProgress, fuListed>>

\* page.tsx:43: the test `!filePath` of onSubmit.
HasFilePath(fp) == fp # Null

\* page.tsx:41-52: onSubmit, for a submit event however it was raised (the
\* handler does its own test). Without a file path it toasts and returns;
\* with one, useChat's handleSubmit appends the user message and posts it,
\* unless the input is empty.
ChatPage_onSubmit ==
  /\ IF ~HasFilePath(filePath)
       THEN /\ pgToast' = "upload first"
            /\ UNCHANGED <<pgInput, pgLoading, pgSent, pgMessages>>
       ELSE /\ pgToast' = pgToast
            /\ IF pgInput = "" \/ pgSent >= MaxTurns
                 THEN UNCHANGED <<pgInput, pgLoading, pgSent, pgMessages>>
                 ELSE /\ pgSent' = pgSent + 1
                      /\ pgMessages' = pgMessages + 1
                      /\ pgLoading' = TRUE
                      /\ pgInput' = ""
  /\ UNCHANGED <<mounted, filePath, fuFile, fuUploading, fuXhr, fuProgress, fuListed>>

\* page.tsx:18-30: the request of useChat ends: with the assistant's message,
\* or with the error toast.
ChatPage_RequestSettles ==
  /\ pgLoading
  /\ pgLoading' = FALSE
  /\ \/ pgMessages' = pgMessages + 1 /\ pgToast' = pgToast
     \/ pgMessages' = pgMessages /\ pgToast' = "error"
  /\ UNCHANGED <<mounted, filePath, pgInput, pgSent, fuFile, fuUploading, fuXhr,
                 fuProgress, fuListed>>

PageNext ==
  \/ FileUploadNext
  \/ ChatPage_handleInputChange
  \/ ChatPage_onSubmit
  \/ ChatPage_RequestSettles

\* ------------------------------------------------------------- ToolPanel
UploadStatus == {"idle", "uploading", "success", "error"}

\* registry.ts:342-347: what fetch resolves with: response.ok, whether
\* response.json() parses the body, and the path the body carries.
Responses == [kind : {"response"}, ok : BOOLEAN, parses : BOOLEAN, path : FilePaths]
NoFetch == [kind |-> "none"]
PendingFetch == [kind |-> "pending"]

\* registry.ts:326-328: the useState initial values.
PanelInit ==
  /\ upFile = Null
  /\ uploadStatus = "idle"
  /\ upError = Null
  /\ upFetch = NoFetch

\* registry.ts:330-345 and 409-410: the file input (disabled while
\* uploading) changes with a file chosen: the state is set and the fetch
\* sent.
ToolPanel_handleFileUpload ==
  /\ uploadStatus # "uploading"
  /\ upFile' = "file"
  /\ uploadStatus' = "uploading"
  /\ upError' = Null
  /\ upFetch' = PendingFetch
  /\ UNCHANGED chatVars

\* registry.ts:359-363: the catch block.
ToolPanel_catch(message) ==
  /\ upError' = message
  /\ uploadStatus' = "error"
  /\ upFetch' = NoFetch
  /\ UNCHANGED upFile
  /\ UNCHANGED chatVars

\* registry.ts:342-345: the fetch settles: it rejects, or resolves with a
\* response.
ToolPanel_FetchSettle ==
  /\ upFetch = PendingFetch
  /\ \/ ToolPanel_catch("Failed to fetch")
     \/ /\ \E resp \in Responses : upFetch' = resp
        /\ UNCHANGED <<upFile, uploadStatus, upError>>
        /\ UNCHANGED chatVars

\* registry.ts:349: the test `!response.ok` after the body parsed.
ResponseOk(resp) == resp.ok

\* registry.ts:347-358: response.json() settles; a body that does not parse
\* and a response that is not ok throw into the catch, otherwise the status
\* is success and onFileUpload hands the path to Home.
ToolPanel_JsonSettle ==
  /\ upFetch.kind = "response"
  /\ IF ~upFetch.parses
       THEN ToolPanel_catch("Unexpected token")
       ELSE IF ~ResponseOk(upFetch)
         THEN ToolPanel_catch("Upload failed")
         ELSE /\ uploadStatus' = "success"
              /\ upFetch' = NoFetch
              /\ UNCHANGED <<upFile, upError>>
              /\ Home_handleFileUpload
              /\ uploadedFile' = upFetch.path

ToolPanelNext ==
  \/ ToolPanel_handleFileUpload
  \/ ToolPanel_FetchSettle
  \/ ToolPanel_JsonSettle

\* ---------------------------------------------------------- ToolRegistry
\* A tool object: its name, and which object of that name it is.
Tool(n, impl) == [name |-> n, impl |-> impl]

\* definitions.ts:5-89: Object.values(tools), in the order of the literal.
definitions ==
  <<Tool("excelAnalyzer", 0), Tool("databaseQuery", 0), Tool("dataVisualizer", 0)>>

\* The tools later register calls are made with.
RegisterNames == {"excelAnalyzer", "databaseQuery", "custom"}
RegisterImpls == {1, 2}
RegisterTools == {Tool(n, impl) : n \in RegisterNames, impl \in RegisterImpls}

\* registry.ts:7-9 and 24: the constructor's empty Map.
RegistryInit ==
  /\ registry = <<>>
  /\ registered = <<>>

\* Map.prototype.set: the entry of the key gets the value and keeps its
\* place, a new key is appended.
MapSet(map, key, value) ==
  IF \E i \in 1..Len(map) : map[i].key = key
    THEN [i \in 1..Len(map) |->
            IF map[i].key = key THEN [key |-> key, value |-> value] ELSE map[i]]
    ELSE Append(map, [key |-> key, value |-> value])

\* The value undefined, where a tool object is expected.
Undefined == Tool("undefined", 0)

\* Map.prototype.get: the value of the key, or undefined.
MapGet(map, key) ==
  IF \E i \in 1..Len(map) : map[i].key = key
    THEN (CHOOSE e \in {map[i] : i \in 1..Len(map)} : e.key = key).value
    ELSE Undefined

\* registry.ts:11-13.
register_Append(map, tool) == Append(map, [key |-> tool.name, value |-> tool])
register(map, tool) == MapSet(map, tool.name, tool)

\* registry.ts:15-17.
get(map, name) == MapGet(map, name)

\* registry.ts:19-21.
list(map) == [i \in 1..Len(map) |-> map[i].value]

\* registry.ts:27-29: one step of the forEach of module initialisation.
Registry_ModuleInit ==
  /\ Len(registered) < Len(definitions)
  /\ LET tool == definitions[Len(registered) + 1] IN
       /\ registry' = register(registry, tool)
       /\ registered' = Append(registered, tool)

\* registry.ts:11-13: a later call of registry.register.
Registry_register ==
  /\ Len(registered) >= Len(definitions)
  /\ Len(registered) < Len(definitions) + MaxRegisters
  /\ \E tool \in RegisterTools :
       /\ registry' = register(registry, tool)
       /\ registered' = Append(registered, tool)

RegistryNext ==
  \/ Registry_ModuleInit
  \/ Registry_register

\* ---------------------------------------------------------- specifications
Init ==
  /\ RouteInit /\ ProxyInit /\ ChatInit /\ BackendInit /\ HandlerInit /\ PageInit
  /\ PanelInit /\ RegistryInit
  /\ mounted = "Home"

\* The chat route under concurrent requests.
Next == RouteNext /\ UNCHANGED <<proxyVars, chatVars, backendVars, handlerVars, pageVars,
               panelVars, registryVars>>
Spec == Init /\ [][Next]_vars

\* The chat route serving one request after the other.
TurnsNext ==
  \/ RouteStep("r1") /\ UNCHANGED <<proxyVars, chatVars, backendVars, handlerVars, pageVars,
               panelVars, registryVars>>
  \/ rpc["r1"] = "returned" /\ RouteStep("r2")
       /\ UNCHANGED <<proxyVars, chatVars, backendVars, handlerVars, pageVars,
               panelVars, registryVars>>
SpecTurns == Init /\ [][TurnsNext]_vars

\* One turn through the chat route beside one turn through the proxy route.
RelayNext ==
  \/ RouteStep("r1") /\ UNCHANGED <<proxyVars, chatVars, backendVars, handlerVars, pageVars,
               panelVars, registryVars>>
  \/ ProxyNext /\ UNCHANGED <<routeVars, chatVars, backendVars, handlerVars, pageVars,
               panelVars, registryVars>>
SpecRelay == Init /\ [][RelayNext]_vars

\* One request at the chat route with the consumer of its body, and the proxy
\* route with its own.
ConsumerNext ==
  \/ RouteStep("r1") /\ UNCHANGED <<proxyVars, chatVars, backendVars, handlerVars, pageVars,
               panelVars, registryVars>>
  \/ Consumer_Read("r1") /\ UNCHANGED <<proxyVars, chatVars, backendVars, handlerVars, pageVars,
               panelVars, registryVars>>
  \/ Consumer_Cancel("r1") /\ UNCHANGED <<proxyVars, chatVars, backendVars, handlerVars, pageVars,
               panelVars, registryVars>>
  \/ ProxyNext /\ UNCHANGED <<routeVars, chatVars, backendVars, handlerVars, pageVars,
               panelVars, registryVars>>
SpecConsumer == Init /\ [][ConsumerNext]_vars

\* The Chat component: submits, stream events, input edits, uploads, clock.
ChatSpecNext == ChatNext /\ UNCHANGED <<routeVars, proxyVars, backendVars, handlerVars, pageVars,
               panelVars, registryVars>>
SpecChat == Init /\ [][ChatSpecNext]_vars

\* The browser shows one of the two pages: Home with its Chat, or ChatPage
\* with its FileUpload panel.
GateInit ==
  /\ RouteInit /\ ProxyInit /\ ChatInit /\ BackendInit /\ HandlerInit /\ PageInit
  /\ PanelInit /\ RegistryInit
  /\ mounted \in Pages
GateNext ==
  \/ /\ mounted = "Home"
     /\ ChatNext
     /\ UNCHANGED <<routeVars, proxyVars, backendVars, handlerVars, pageVars,
               panelVars, registryVars>>
  \/ /\ mounted = "ChatPage"
     /\ PageNext
     /\ UNCHANGED <<routeVars, proxyVars, chatVars, backendVars, handlerVars,
                   panelVars, registryVars>>
SpecGate == GateInit /\ [][GateNext]_vars

\* The backend's dataset-analysis handler, turn after turn.
BackendSpecNext ==
  BackendNext /\ UNCHANGED <<routeVars, proxyVars, chatVars, handlerVars, pageVars,
               panelVars, registryVars>>
SpecBackend == Init /\ [][BackendSpecNext]_vars

\* The registry's tool handlers, invoked one after the other.
HandlerSpecNext ==
  HandlerNext /\ UNCHANGED <<routeVars, proxyVars, chatVars, backendVars, pageVars,
                           panelVars, registryVars>>
SpecHandlers == Init /\ [][HandlerSpecNext]_vars

\* The two upload widgets: ToolPanel beside Home's Chat, and FileUpload on
\* ChatPage, each with its own request.
UploadNext ==
  \/ ToolPanelNext
       /\ UNCHANGED <<routeVars, proxyVars, backendVars, handlerVars, pageVars,
                      registryVars>>
  \/ FileUploadNext
       /\ UNCHANGED <<routeVars, proxyVars, chatVars, backendVars, handlerVars,
                      panelVars, registryVars>>
SpecUpload == Init /\ [][UploadNext]_vars

\* The exported registry: module initialisation, then further register calls.
RegistrySpecNext ==
  RegistryNext /\ UNCHANGED <<routeVars, proxyVars, chatVars, backendVars, handlerVars,
                              pageVars, panelVars>>
SpecRegistry == Init /\ [][RegistrySpecNext]_vars


\* ------------------------------------------------------------------ claims

\* C1: in every turn of the chat route the status notice is the first chunk
\* enqueued on the response stream: the tool-naming notice in the tool branch,
\* the 'answering directly' notice in the direct branch, and only upstream
\* chunks after it.
C1_NoticeFirst ==
  \A r \in Req :
    /\ rStrm[r] # "none" => rOut[r] # <<>>
    /\ rOut[r] # <<>> =>
         /\ rOut[r][1] = (IF rBranch[r] = "tool" THEN ToolSystemMessage(rCalls[r])
                                                 ELSE DirectSystemMessage)
         /\ \A i \in 2..Len(rOut[r]) : rOut[r][i].kind = "data"

C1_Witness ==
  \E a, b \in Req :
    /\ rBranch[a] = "tool" /\ Len(rOut[a]) >= 2
    /\ rBranch[b] = "direct" /\ Len(rOut[b]) >= 2

\* C2: the chunks relayed after the notice (chat route) and the chunks the
\* pump writes (proxy route) are at every moment a prefix of the chunks read
\* from upstream, in the order read, and equal to them once the stream is
\* closed.
C2_RelayInOrder ==
  /\ \A r \in Req :
       /\ IsPrefix(Tail1(rOut[r]), rRead[r])
       /\ rStrm[r] = "closed" => Tail1(rOut[r]) = rRead[r]
  /\ IsPrefix(pWritten, pRead)
  /\ IsPrefix(pDelivered, pWritten)
  /\ pStrm = "closed" => pWritten = pRead /\ pDelivered = pRead

C2_Witness ==
  /\ rStrm["r1"] = "closed" /\ Len(rRead["r1"]) >= 2
  /\ pStrm = "closed" /\ Len(pRead) >= 2

\* C3: every turn's output stream has exactly one terminal event (close, or
\* error/abort) once the relay has finished, whatever the upstream did
\* (read error, non-OK or body-less response), and never more than one.
C3_TerminalExactlyOnce ==
  /\ \A r \in Req :
       /\ rTerm[r] <= 1
       /\ (rpc[r] = "returned" /\ rResp[r].kind = "stream") => rTerm[r] = 1
  /\ pTerm <= 1
  /\ (ppc = "returned" /\ pResp.kind = "stream") => pTerm = 1

\* C4: a classification carrying two or more tool calls is rejected: no
\* backend dispatch happens for it and no stream is produced.
C4_SecondToolCallRejected ==
  \A r \in Req :
    Len(rCalls[r]) >= 2 => backend[r] = "none" /\ rStrm[r] = "none"

\* C5: the assistant's text is appended once per successful turn, whole and
\* only when the stream has ended; a turn whose request or stream fails
\* appends no assistant message. The assistant messages are exactly the
\* texts of the turns that ended well, in order, and every request sent has
\* its one user message.
IsAssistant(m) == m.role = "assistant"
IsOk(t) == t.outcome = "ok"
C5_AssistantAppendedOnce ==
  LET assistants == SelectSeq(messages, IsAssistant)
      oks == SelectSeq(turnLog, IsOk)
  IN /\ Len(assistants) = Len(oks)
     /\ \A k \in 1..Len(assistants) : assistants[k].content = oks[k].text
     /\ Len(messages) = sent + Len(oks)

C5_Witness ==
  /\ Len(turnLog) = 2
  /\ turnLog[1].outcome = "fail" /\ turnLog[1].text # <<>>
  /\ turnLog[2].outcome = "ok" /\ Len(turnLog[2].text) >= 2

\* C6: while a handleSubmit invocation is between sending its request and its
\* finally block, the form admits no submit, no further request is sent, and
\* a message is appended only by that invocation finishing.
C6_TurnsSequential ==
  [][Active # {} =>
       /\ isLoading /\ ~SubmitEnabled
       /\ sent' = sent
       /\ Cardinality(Active') <= 1
       /\ (Len(messages') # Len(messages) => Active' = {})]_vars

C6_Witness ==
  /\ Active # {}
  /\ Trim(input) # "" /\ uploadedFile # Null /\ sent < MaxTurns
  /\ \E i \in Active : hpc[i] = "read" /\ fullResponse[i] # <<>>

\* C8: the executor is invoked only on code that a validation step of the
\* same turn accepted, and never on code with a deny-listed call (exec, eval,
\* open, __import__) or a dunder attribute access.
C8_RejectedCodeNeverExecuted ==
  \A k \in 1..Len(bExecutions) :
    LET e == bExecutions[k]
    IN /\ \E v \in 1..Len(bValidations) :
            /\ bValidations[v].turn = e.turn
            /\ bValidations[v].code = e.code
            /\ bValidations[v].verdict = "accepted"
       /\ e.code.calls \cap {"exec", "eval", "open", "__import__"} = {}
       /\ \A a \in e.code.attrs : ~IsDunder(a)

C8_Witness ==
  /\ Len(bExecutions) = 1
  /\ Len(bResults) = 2
  /\ \E v \in 1..Len(bValidations) :
       /\ bValidations[v].verdict = "rejected"
       /\ bValidations[v].code.calls \cap {"exec", "eval", "open", "__import__"} # {}

\* C9: the step that ends a turn in failure (fetch rejection, non-OK
\* response, read error) leaves isLoading false and status empty, appends
\* nothing to the message list, and the form admits the next submit.
FailedTurnEnds ==
  /\ Len(turnLog') = Len(turnLog) + 1
  /\ turnLog'[Len(turnLog')].outcome = "fail"
C9_FailedTurnLeavesSessionUsable ==
  [][FailedTurnEnds =>
       /\ isLoading' = FALSE /\ status' = ""
       /\ messages' = messages
       /\ SubmitEnabled']_vars

C9_Witness ==
  /\ Len(turnLog) = 2
  /\ turnLog[1].outcome = "fail" /\ turnLog[2].outcome = "ok"
  /\ Len(messages) = 3 /\ messages[3].role = "assistant"
  /\ ~isLoading /\ status = ""

\* C7: two requests of the same session (same dataset file path) never have
\* their backend executions in flight at the same time.
C7_NoOverlappingExecutions ==
  \A a, b \in Req :
    (a # b /\ rFile[a] # Null /\ rFile[a] = rFile[b]) =>
      ~(backend[a] = "running" /\ backend[b] = "running")

\* C10: a tool name that is not in the Tool Registry is never dispatched.
C10_UnknownToolRejected ==
  \A r \in Req :
    (\E i \in 1..Len(rCalls[r]) : RegistryGet(registryInit, rCalls[r][i]) = Null)
      => backend[r] = "none"

\* C11 (chat route, under Spec): before dispatch every tool call's argument
\* mapping holds every required field of its tool: no backend call is made
\* for a reply with a call that misses one. The route never looks at the
\* arguments: a reply whose excelAnalyzer call carries the query alone
\* reaches the backend.
MissesRequired(calls, args) ==
  \E k \in 1..Len(calls) : ~(RequiredFields(calls[k]) \subseteq args[k])

C11_RequiredFieldsBeforeDispatch ==
  \A r \in Req :
    (rArgs[r] # <<>> /\ MissesRequired(rCalls[r], rArgs[r])) => backend[r] = "none"

\* C12 (tool handlers, under SpecHandlers): every invocation of the
\* excelAnalyzer and databaseQuery handlers completes by returning a value;
\* no failure escapes as an exception. A rejection of sql.close() in the
\* finally of databaseQuery escapes.
C12_HandlersAlwaysReturn ==
  \A k \in 1..Len(tLog) : tLog[k].completion = "return"

\* C13 (chat route, under Spec): a collaborator that fails is surfaced as an
\* error, apart from normal output: a turn whose backend call in the tool
\* branch was refused or answered non-OK ends with an error response, and
\* nothing of a non-OK backend response follows the notice on the stream.
\* The route never tests backendResponse.ok: the body of a non-OK response
\* is streamed after the notice with status 200. (What follows a failed
\* tool-schema fetch is the OpenAI service's answer to a call with tools:
\* null, which the sources do not settle; the formula leaves it out.)
C13_CollaboratorFailureIsError ==
  \A r \in Req :
    /\ (rBranch[r] = "tool" /\ ~rUpOk[r]) =>
          \A k \in 1..Len(rOut[r]) : rOut[r][k].kind # "data"
    /\ (rpc[r] = "returned" /\ (backend[r] = "failed" \/ ~rUpOk[r])) =>
          (rResp[r].kind = "error" \/ rStrm[r] = "errored")

\* C14 (both routes, under SpecRelay): no failure response carries raw
\* diagnostics: the body of an error response is never the message of the
\* caught exception or of the upstream error. The chat route's catch answers
\* an OpenAI.APIError with that error's own message as the body.
RawDiagnostics == {e.message : e \in ApiErrors \cup OtherErrors}

C14_NoRawDiagnostics ==
  /\ \A r \in Req : rResp[r].kind = "error" => rResp[r].body \notin RawDiagnostics
  /\ pResp.kind = "error" => pResp.body \notin RawDiagnostics

\* C15 (chat route, under SpecConsumer): after the consumer has disconnected
\* the relay keeps draining the upstream to its end (the backend run of a
\* tool turn is not left unfinished), and the chunks held undelivered do not
\* grow. The loop stops at the first chunk read after the cancel: enqueue
\* throws, and the backend's stream is left unread and never ended.
C15_DisconnectDrainsUpstream ==
  [][\A r \in Req :
       /\ (rStrm'[r] = "cancelled" /\ rpc'[r] = "returned" /\ rBranch'[r] = "tool")
            => backend'[r] \in {"done", "failed"}
       /\ rStrm[r] = "cancelled" =>
            Len(rOut'[r]) - rDelivered'[r] <= Len(rOut[r]) - rDelivered[r]]_vars

\* C20 (both routes, under SpecConsumer): the relay channel is bounded: at
\* most one chunk is held between the relay and its consumer, in the proxy
\* pump and in the chat route's streams, and a stream whose relay finished
\* without error is closed. The chat route's loop enqueues every chunk as
\* soon as it is read, whatever the consumer has taken.
C20_AtMostOneChunkInFlight ==
  /\ \A r \in Req :
       /\ rStrm[r] = "open" => Len(rOut[r]) - rDelivered[r] <= 1
       /\ (rpc[r] = "returned" /\ rStrm[r] \notin {"none", "errored", "cancelled"})
            => rStrm[r] = "closed"
  /\ Len(pWritten) - Len(pDelivered) <= 1

\* C18 (chat route, under SpecTurns): a classified turn is in exactly one
\* branch, the tool branch iff the model's reply carries at least one tool
\* call. A tool turn has called the backend chat endpoint exactly once; a
\* direct turn never calls it, and its stream is the direct notice followed
\* by the chunks read from the model's streamed answer.
C18_OneBranchPerTurn ==
  \A r \in Req :
    /\ rBranch[r] = "none" => (rDispatches[r] = 0 /\ backend[r] = "none")
    /\ rBranch[r] # "none" => (rBranch[r] = "tool" <=> Len(rCalls[r]) >= 1)
    /\ rBranch[r] = "tool" => (rDispatches[r] = 1 /\ backend[r] # "none")
    /\ rBranch[r] = "direct" =>
         /\ rDispatches[r] = 0 /\ backend[r] = "none"
         /\ rOut[r] # <<>> =>
              /\ rOut[r][1] = DirectSystemMessage
              /\ IsPrefix(Tail(rOut[r]), rRead[r])

C18_Witness ==
  /\ rBranch["r1"] = "tool" /\ rStrm["r1"] = "closed" /\ rDispatches["r1"] = 1
  /\ rBranch["r2"] = "direct" /\ rStrm["r2"] = "closed" /\ Len(rOut["r2"]) >= 3

\* C19 (chat route, under Spec): the tool-schema list is set once and read
\* only afterwards: once cachedTools holds a list it is never assigned again,
\* a call made while it holds one returns it without a fetch, and a failed
\* fetch leaves it alone. Two POST handlers that both found the cache empty
\* both fetch, and the one that settles second assigns cachedTools again.
C19_ToolListReadOnly ==
  [][/\ cachedTools # Null => cachedTools' = cachedTools
     /\ \A r \in Req :
          /\ (rpc[r] = "idle" /\ rpc'[r] \notin {"idle", "returned"}
                /\ cachedTools # Null)
               => (rpc'[r] = "classify" /\ rTools'[r] = cachedTools)
          /\ (rpc[r] = "fetchTools" /\ rpc'[r] = "classify" /\ rTools'[r] = Null)
               => cachedTools' = cachedTools]_vars

\* C17 (Chat, under SpecChat): the message list is append-only and its
\* messages are immutable: whatever the step (submit, stream event, failure,
\* collapse toggle), every message already in the list keeps its role,
\* content, id and position, and the list only grows at its end.
C17_MessagesAppendOnly ==
  [][/\ Len(messages') >= Len(messages)
     /\ \A k \in 1..Len(messages) :
          /\ messages'[k].role = messages[k].role
          /\ messages'[k].content = messages[k].content
          /\ messages'[k].id = messages[k].id]_vars

C17_Witness ==
  /\ Len(messages) = 4
  /\ messages[2].role = "assistant" /\ messages[2].isCollapsed
  /\ messages[4].role = "assistant"

\* C16 (Chat and ChatPage, under SpecGate): no turn starts without a
\* dataset: a step taken while uploadedFile (Chat) or filePath (ChatPage) is
\* absent sends no request to /api/chat and appends no message.
C16_NoTurnWithoutDataset ==
  [][/\ uploadedFile = Null => (sent' = sent /\ messages' = messages)
     /\ filePath = Null => (pgSent' = pgSent /\ pgMessages' = pgMessages)]_vars

C16_Witness ==
  /\ mounted = "ChatPage"
  /\ filePath = Null /\ pgToast = "upload first"
  /\ pgSent = 0 /\ pgMessages = 0

\* The events of a request that ended without a new path for FileUpload.
FailedXhr == {"load unparseable", "load http error", "error"}

\* C21: only a successful upload replaces the attached dataset. A step of
\* ToolPanel changes Home's uploadedFile only when response.json() settles on
\* an ok response whose body parsed, and a step into the error status leaves
\* it as it was; the step that ends FileUpload's request changes the file path
\* only on a load with status 200 and a body that parses, and leaves it as it
\* was after another status, a body that does not parse, or a network error.
C21_OnlySuccessReplaces ==
  [][/\ uploadedFile' # uploadedFile =>
          /\ upFetch.kind = "response" /\ upFetch.ok /\ upFetch.parses
          /\ uploadStatus' = "success"
          /\ uploadedFile' = upFetch.path
     /\ uploadStatus = "uploading" /\ uploadStatus' = "error" =>
          uploadedFile' = uploadedFile
     /\ fuXhr = "sent" /\ fuXhr' # "sent" /\ filePath' # filePath =>
          fuXhr' = "load ok"
     /\ fuXhr = "sent" /\ fuXhr' \in FailedXhr => filePath' = filePath]_vars

\* Both widgets attached a dataset by an upload, and the upload after it
\* failed: the references are still there.
C21_Witness ==
  /\ uploadStatus = "error" /\ uploadedFile # Null
  /\ fuXhr \in FailedXhr /\ filePath # Null /\ ~fuListed

\* The steps that end a request of ToolPanel, and of FileUpload.
ToolPanel_Settle ==
  /\ ToolPanel_FetchSettle \/ ToolPanel_JsonSettle
  /\ UNCHANGED <<routeVars, proxyVars, backendVars, handlerVars, pageVars,
                 registryVars>>
FileUpload_Settle ==
  /\ FileUpload_XhrSettle
  /\ UNCHANGED <<routeVars, proxyVars, chatVars, backendVars, handlerVars,
                 panelVars, registryVars>>

\* The upload widgets with every request ending at some time: a pending fetch
\* settles, a response's body is read, an XMLHttpRequest in flight ends.
SpecUploadFair ==
  SpecUpload /\ WF_vars(ToolPanel_Settle) /\ WF_vars(FileUpload_Settle)

\* ToolPanel leaves the uploading status, and FileUpload the uploading state.
ToolPanelSettles ==
  (uploadStatus = "uploading") ~> (uploadStatus \in {"success", "error"})
FileUploadSettles == fuUploading ~> (~fuUploading /\ fuFile = Null /\ fuProgress = 0)

\* C22: every upload settles. A widget is in the uploading state only while
\* its request is in flight: once the request has ended, whatever its
\* outcome, ToolPanel's status is success or error, and FileUpload's
\* uploading is false and its progress 0 (the button is enabled again with
\* the next file selected).
C22_EndedRequestLeavesUploading ==
  /\ upFetch = NoFetch => uploadStatus # "uploading"
  /\ fuXhr # "sent" => ~fuUploading /\ fuProgress = 0

\* C23: message ids are unique within Chat's message list in every reachable
\* state: no two places of the list hold the same id (so that the map of
\* toggleMessageCollapse, which flips every message whose id matches, flips
\* exactly one).
C23_UniqueMessageIds ==
  \A j, k \in 1..Len(messages) : j # k => messages[j].id # messages[k].id

\* The names register was called with, and the last tool registered under a
\* name (undefined when none was).
RegisteredNames == {registered[i].name : i \in 1..Len(registered)}
LastRegistered(n) ==
  IF n \in RegisteredNames
    THEN registered[CHOOSE i \in 1..Len(registered) :
                      /\ registered[i].name = n
                      /\ \A j \in (i + 1)..Len(registered) : registered[j].name # n]
    ELSE Undefined

\* C24: ToolRegistry keeps one tool per name. After any sequence of register
\* calls every entry's key is its tool's name and no two entries share a key;
\* get(n) is the tool most recently registered under n, and undefined when
\* none was; list() holds one tool for each registered name and no other;
\* and when module initialisation has run, the registry holds exactly the
\* tools of definitions.ts, the names the chat route looks up.
C24_OneToolPerName ==
  /\ \A i \in 1..Len(registry) : registry[i].key = registry[i].value.name
  /\ \A i, j \in 1..Len(registry) : i # j => registry[i].key # registry[j].key
  /\ \A n \in tools \cup RegisterNames : get(registry, n) = LastRegistered(n)
  /\ {list(registry)[i].name : i \in 1..Len(list(registry))} = RegisteredNames
  /\ Len(list(registry)) = Cardinality(RegisteredNames)
  /\ registered = definitions =>
       /\ list(registry) = definitions
       /\ \A n \in tools \cup RegisterNames :
            (get(registry, n) = Undefined) <=> (RegistryGet(registryInit, n) = Null)

\* After module initialisation a name was registered again with another tool
\* object, and a new name was registered.
C24_Witness ==
  /\ Len(registered) > Len(definitions)
  /\ \E i, j \in 1..Len(registered) :
       i < j /\ registered[i].name = registered[j].name /\ registered[i] # registered[j]
  /\ Len(registry) > Len(definitions)

====
